---- MODULE Spec2Model ----
(***************************************************************************)
(* Transaction ledger of the welth finance tracker: the server actions     *)
(* createTransaction, getTransaction, updateTransaction and                *)
(* getUserTransactions, the receipt scanner, the recurring-date calculator *)
(* and the demo seeder, over a persistence layer holding users, accounts   *)
(* and transactions.  Each mutation is two steps (its reads, then its      *)
(* atomic write), so that calls of different requests interleave as the    *)
(* awaits of the handlers allow; the seeder, run on its own, is one step.  *)
(***************************************************************************)
EXTENDS Integers, Sequences, FiniteSets, TLC

\* ------------------------------------------------------------------ bounds

\* Number of transaction ids the store ever hands out.
MaxId == 2

\* Number of handler calls a behaviour makes: one request at a time, and
\* with requests interleaved.
MaxCalls == 3
MaxConcurrentCalls == 3

\* Number of recurring creates and updates a behaviour makes.
MaxDateCalls == 2

\* Number of days a seeding run generates rows for (91 in the seeder), and
\* number of calls (seeding runs and creates) a behaviour with the seeder
\* makes.
SeedDays == 1
MaxSeedCalls == 2

\* The most rows the seeder generates for one day.
TransactionsPerDayMax == 3

\* Requests that may be in flight at once.
Procs == {"p1", "p2"}

\* ------------------------------------------------------------- value sets

Null == "null"
Undefined == "undefined"
\* A date is the number yyyymmdd of a calendar day; NullDate is the SQL NULL.
NullDate == 0

\* Session identities auth() may resolve to; NoSession is the absent userId.
NoSession == "none"
Sessions == {NoSession, "clerk0", "clerk1", "clerk2"}

\* The user table: clerkUserId -> internal id ("clerk0" has no row).
NoUser == "nouser"
UserIds == {"U1", "U2"}
FindUser(clerkUserId) ==
    CASE clerkUserId = "clerk1" -> "U1"
      [] clerkUserId = "clerk2" -> "U2"
      [] OTHER -> NoUser

\* The account table's ids and owners; "AX" is an id no account has.
AccountIds == {"A1", "A2", "B1"}
AccountOwner == [a \in AccountIds |-> IF a = "B1" THEN "U2" ELSE "U1"]
InputAccountIds == AccountIds \cup {"AX"}

Types == {"INCOME", "EXPENSE"}
Amounts == {100, 150}
Dates == {20240131, 20240215}
Intervals == {"DAILY", "WEEKLY", "MONTHLY", "YEARLY"}

\* -------------------------------------------------- recurring-date helper

IsLeap(y) == (y % 4 = 0 /\ y % 100 # 0) \/ y % 400 = 0

DaysInMonth(y, m) ==
    CASE m \in {4, 6, 9, 11} -> 30
      [] m = 2 -> IF IsLeap(y) THEN 29 ELSE 28
      [] OTHER -> 31

\* The calendar day JavaScript's Date normalises (y, m, d) to, for m >= 1 and
\* d >= 1: a month past December rolls the year, a day past the month's end
\* rolls into the following month(s).
RECURSIVE MakeDate(_, _, _)
MakeDate(y, m, d) ==
    IF m > 12 THEN MakeDate(y + 1, m - 12, d)
    ELSE IF d > DaysInMonth(y, m) THEN MakeDate(y, m + 1, d - DaysInMonth(y, m))
    ELSE y * 10000 + m * 100 + d

YearOf(date) == date \div 10000
MonthOf(date) == (date \div 100) % 100
DayOf(date) == date % 100

\* The switch with a default branch that steps a day, as it would be were an
\* unknown interval taken for the shortest one.
calculateNextRecurringDateDefaultDaily(startDate, interval) ==
    CASE interval = "WEEKLY" ->
            MakeDate(YearOf(startDate), MonthOf(startDate), DayOf(startDate) + 7)
      [] interval = "MONTHLY" ->
            MakeDate(YearOf(startDate), MonthOf(startDate) + 1, DayOf(startDate))
      [] interval = "YEARLY" ->
            MakeDate(YearOf(startDate) + 1, MonthOf(startDate), DayOf(startDate))
      [] OTHER ->
            MakeDate(YearOf(startDate), MonthOf(startDate), DayOf(startDate) + 1)

calculateNextRecurringDate(startDate, interval) ==
    CASE interval = "DAILY" ->
            MakeDate(YearOf(startDate), MonthOf(startDate), DayOf(startDate) + 1)
      [] interval = "WEEKLY" ->
            MakeDate(YearOf(startDate), MonthOf(startDate), DayOf(startDate) + 7)
      [] interval = "MONTHLY" ->
            MakeDate(YearOf(startDate), MonthOf(startDate) + 1, DayOf(startDate))
      [] interval = "YEARLY" ->
            MakeDate(YearOf(startDate) + 1, MonthOf(startDate), DayOf(startDate))
      [] OTHER -> startDate

\* ------------------------------------------------------------------ state

VARIABLES
    account,      \* account table: id -> [userId, balance]
    transaction,  \* transaction table: a set of rows, one per id
    nextId,       \* the next transaction id the store generates
    budget,       \* number of handler calls still to be made
    call,         \* per request: where its handler stands, and its locals
    response,     \* what the most recent handler step gave its caller
    applied,      \* statements of the most recent $transaction that persist
    deltaSum,     \* per account: the deltas of the mutations committed on it
    failed,       \* some createTransaction/updateTransaction returned failure
    log           \* the calls the most recently ended handler made, in order

vars == <<account, transaction, nextId, budget, call, response, applied, deltaSum, failed, log>>

\* The submitted `data` object.  recurringInterval and userId may be absent
\* (Undefined); the other keys are always present.
NoData ==
    [accountId |-> "AX", type |-> "INCOME", amount |-> 0, date |-> NullDate,
     isRecurring |-> FALSE, recurringInterval |-> Undefined, userId |-> Undefined]

IdleCall ==
    [pc |-> "idle", op |-> "none", session |-> NoSession, user |-> NoUser,
     id |-> 0, data |-> NoData,
     newBalance |-> 0, netBalanceChange |-> 0, log |-> <<>>]

\* One awaited call of a handler: what was called, whether it gave the
\* handler what it needs to go on, the account or path it names, the
\* transaction row and the account balance it read or the value it wrote.
Event(ev, ok, arg, row, balance) ==
    [ev |-> ev, ok |-> ok, arg |-> arg, row |-> row, balance |-> balance]

\* Every call of the handler, as it would be were a failed guard not to end
\* the handler.
PerformedAll(events) == events

\* The calls actually made: a handler stops at the first one that fails.
Performed(events) ==
    LET bad == {i \in DOMAIN events : ~events[i].ok} IN
    IF bad = {} THEN events
    ELSE SubSeq(events, 1, CHOOSE i \in bad : \A j \in bad : i <= j)

AccountPath(accountId) == "/account/" \o accountId

\* revalidatePath("/dashboard"), then revalidatePath(`/account/${accountId}`);
\* failAt is the call that throws (0: neither).
Revalidations(accountId, failAt) ==
    Performed(<< Event("revalidatePath", failAt # 1, "/dashboard", <<>>, 0),
                 Event("revalidatePath", failAt # 2, AccountPath(accountId),
                       <<>>, 0) >>)

\* An outcome that is always returned, as it would be were no handler to
\* throw.
ResponseNeverRaised(p, op, session, id, ok, raised, error, data) ==
    [op |-> op, session |-> session, id |-> id,
     ok |-> ok, raised |-> FALSE, error |-> error, data |-> data]

\* A handler's outcome: returned (raised = FALSE) with success `ok`, an error
\* message and the rows it carries, or thrown to the caller (raised = TRUE).
Response(p, op, session, id, ok, raised, error, data) ==
    [op |-> op, session |-> session, id |-> id,
     ok |-> ok, raised |-> raised, error |-> error, data |-> data]

NoResponse == Response("p1", "none", NoSession, 0, TRUE, FALSE, "", <<>>)

Init ==
    /\ account = [a \in AccountIds |-> [userId |-> AccountOwner[a], balance |-> 0]]
    /\ transaction = {}
    /\ nextId = 1
    /\ budget = MaxCalls
    /\ call = [p \in Procs |-> IdleCall]
    /\ response = NoResponse
    /\ applied = <<>>
    /\ deltaSum = [a \in AccountIds |-> 0]
    /\ failed = FALSE
    /\ log = <<>>

\* ------------------------------------------------------ persistence layer

DbOf(acc, txs) == [account |-> acc, transaction |-> txs]

\* db.account.findFirst({ where: { id, userId } }): the matching ids.
AccountFindFirst(db, id, userId) ==
    {a \in DOMAIN db.account : a = id /\ db.account[a].userId = userId}

\* A lookup by id alone, as it would be without the userId filter.
TransactionFindById(db, id, userId) == {r \in db.transaction : r.id = id}

\* db.transaction.findFirst({ where: { id, userId } }): the matching rows.
TransactionFindFirst(db, id, userId) ==
    {r \in db.transaction : r.id = id /\ r.userId = userId}

\* The value a column takes from an object spread into `data`: an absent key
\* (undefined) leaves the column as it was.
Column(given, old) == IF given = Undefined THEN old ELSE given

\* nextRecurringDate as both mutations compute it from the submitted data.
NextRecurringDate(data) ==
    IF data.isRecurring /\ data.recurringInterval \notin {Undefined, Null}
    THEN calculateNextRecurringDate(data.date, data.recurringInterval)
    ELSE NullDate

\* The row db.transaction.create inserts: the spread data, then userId set to
\* the resolved user's id and nextRecurringDate computed.
CreatedRow(id, data, userId) ==
    [id |-> id, userId |-> userId, accountId |-> data.accountId,
     type |-> data.type, amount |-> data.amount, date |-> data.date,
     isRecurring |-> data.isRecurring,
     recurringInterval |-> Column(data.recurringInterval, Null),
     nextRecurringDate |-> NextRecurringDate(data),
     status |-> "COMPLETED"]

\* The row db.transaction.update leaves: every key of the spread data
\* overwrites its column, then nextRecurringDate is recomputed.
UpdatedRow(r, data) ==
    [id |-> r.id, userId |-> Column(data.userId, r.userId),
     accountId |-> data.accountId,
     type |-> data.type, amount |-> data.amount, date |-> data.date,
     isRecurring |-> data.isRecurring,
     recurringInterval |-> Column(data.recurringInterval, r.recurringInterval),
     nextRecurringDate |-> NextRecurringDate(data),
     status |-> r.status]

\* One statement against db: [ok, db].  An update whose `where` matches no
\* row is an error.
Exec(db, stmt) ==
    CASE stmt.kind = "transaction.create" ->
            [ok |-> TRUE,
             db |-> DbOf(db.account, db.transaction \cup {stmt.row})]
      [] stmt.kind = "transaction.update" ->
            LET hit == TransactionFindFirst(db, stmt.id, stmt.userId) IN
            [ok |-> hit # {},
             db |-> DbOf(db.account,
                         {IF r \in hit THEN UpdatedRow(r, stmt.data) ELSE r :
                            r \in db.transaction})]
      [] stmt.kind = "account.update" ->
            IF stmt.id \in DOMAIN db.account
            THEN [ok |-> TRUE,
                  db |-> DbOf([db.account EXCEPT ![stmt.id].balance =
                                  IF stmt.increment THEN @ + stmt.value
                                  ELSE stmt.value],
                              db.transaction)]
            ELSE [ok |-> FALSE, db |-> db]
      [] stmt.kind = "transaction.deleteMany" ->
            [ok |-> TRUE,
             db |-> DbOf(db.account,
                         {r \in db.transaction : r.accountId # stmt.accountId})]
      [] stmt.kind = "transaction.createMany" ->
            [ok |-> TRUE,
             db |-> DbOf(db.account, db.transaction \cup stmt.rows)]

\* The statements in order, from the k-th on, against the working copy `cur`;
\* failAt is the statement at which the store fails (0: it does not).
\* [ok, db, applied]: the working copy and the statements run so far.
RECURSIVE RunStatements(_, _, _, _)
RunStatements(cur, stmts, k, failAt) ==
    IF k > Len(stmts) THEN [ok |-> TRUE, db |-> cur, applied |-> <<>>]
    ELSE LET r == Exec(cur, stmts[k]) IN
         IF k = failAt \/ ~r.ok
         THEN [ok |-> FALSE, db |-> cur, applied |-> <<>>]
         ELSE LET rest == RunStatements(r.db, stmts, k + 1, failAt) IN
              [ok |-> rest.ok, db |-> rest.db,
               applied |-> <<stmts[k].kind>> \o rest.applied]

\* The statements run one after another with no rollback, as they would be
\* outside a $transaction.
DbTransactionNoRollback(db, stmts, failAt) == RunStatements(db, stmts, 1, failAt)

\* db.$transaction([...]): all statements take effect, or on any failure the
\* store is left as it was.
DbTransaction(db, stmts, failAt) ==
    LET run == RunStatements(db, stmts, 1, failAt) IN
    IF run.ok THEN run ELSE [ok |-> FALSE, db |-> db, applied |-> <<>>]

\* ------------------------------------------------------ createTransaction

\* The amount with no sign, as it would be were the type not looked at.
BalanceChangeUnsigned(type, amount) == amount

\* The signed amount of a transaction of the given type.
BalanceChange(type, amount) == IF type = "EXPENSE" THEN -amount ELSE amount

Decisions == {"ALLOW", "RATE_LIMIT", "DENY"}

\* Creates in flight: each will take one id.
PendingCreates == Cardinality({q \in Procs : call[q].op = "create"})

\* The guards and reads of createTransaction, up to the computed newBalance.
CreateRead(p, session, decision, data) ==
    /\ call[p].pc = "idle"
    /\ budget > 0
    /\ budget' = budget - 1
    /\ nextId + PendingCreates <= MaxId
    /\ LET user == FindUser(session)
           db == DbOf(account, transaction)
           error ==
             CASE session = NoSession -> "Unauthorized"
               [] decision = "RATE_LIMIT" ->
                      "Too many requests. Please try again later."
               [] decision = "DENY" -> "Request blocked"
               [] user = NoUser -> "User not found"
               [] AccountFindFirst(db, data.accountId, user) = {} ->
                      "Account not found"
               [] OTHER -> ""
           found == AccountFindFirst(db, data.accountId, user) # {}
           events ==
             Performed(<<
               Event("auth", session # NoSession, "", <<>>, 0),
               Event("aj.protect", decision = "ALLOW", "", <<>>, 0),
               Event("db.user.findFirst", user # NoUser, "", <<>>, 0),
               Event("db.account.findFirst", found, data.accountId, <<>>,
                     IF found THEN account[data.accountId].balance ELSE 0) >>)
       IN IF error # ""
          THEN /\ response' = Response(p, "create", session, 0, FALSE, FALSE,
                                       error, <<>>)
               /\ failed' = TRUE
               /\ log' = events
               /\ UNCHANGED call
          ELSE /\ call' = [call EXCEPT ![p] =
                    [pc |-> "write", op |-> "create", session |-> session,
                     user |-> user, id |-> 0, data |-> data,
                     newBalance |-> account[data.accountId].balance
                                    + BalanceChange(data.type, data.amount),
                     netBalanceChange |-> 0, log |-> events]]
               /\ UNCHANGED <<response, failed, log>>
    /\ UNCHANGED <<account, transaction, nextId, applied, deltaSum>>

\* The atomic write of createTransaction, the two revalidatePath calls and
\* the return.  failAt: the statement at which the store fails (0: none);
\* revalidateFailAt: the revalidatePath call that throws (0: neither).
CreateWrite(p, failAt, revalidateFailAt) ==
    /\ call[p].pc = "write" /\ call[p].op = "create"
    /\ LET c == call[p]
           row == CreatedRow(nextId, c.data, c.user)
           run == DbTransaction(DbOf(account, transaction),
                    << [kind |-> "transaction.create", row |-> row],
                       [kind |-> "account.update", id |-> c.data.accountId,
                        increment |-> FALSE, value |-> c.newBalance] >>,
                    failAt)
           good == run.ok /\ revalidateFailAt = 0
       IN /\ account' = run.db.account
          /\ transaction' = run.db.transaction
          /\ applied' = run.applied
          /\ nextId' = IF run.ok THEN nextId + 1 ELSE nextId
          /\ deltaSum' = IF run.ok
                         THEN [deltaSum EXCEPT ![c.data.accountId] =
                                 @ + BalanceChange(c.data.type, c.data.amount)]
                         ELSE deltaSum
          /\ response' = Response(p, "create", c.session, 0, good, FALSE,
                            IF ~run.ok THEN "Transaction failed"
                            ELSE IF ~good THEN "Revalidation failed"
                            ELSE "",
                            IF good THEN <<row>> ELSE <<>>)
          /\ failed' = (failed \/ ~good)
          /\ log' = c.log \o
                IF run.ok
                THEN << Event("db.transaction.create", TRUE, c.data.accountId,
                              <<>>, 0),
                        Event("db.account.update", TRUE, c.data.accountId,
                              <<>>, c.newBalance) >>
                     \o Revalidations(c.data.accountId, revalidateFailAt)
                ELSE << Event("db.$transaction", FALSE, "", <<>>, 0) >>
    /\ call' = [call EXCEPT ![p] = IdleCall]
    /\ UNCHANGED budget

\* --------------------------------------------------------- getTransaction

GetTransaction(p, session, id) ==
    /\ call[p].pc = "idle"
    /\ budget > 0
    /\ budget' = budget - 1
    /\ LET user == FindUser(session)
           hit == TransactionFindFirst(DbOf(account, transaction), id, user)
           error ==
             CASE session = NoSession -> "Unauthorized"
               [] user = NoUser -> "User not found"
               [] hit = {} -> "Transaction not found"
               [] OTHER -> ""
       IN /\ response' =
               IF error # ""
               THEN Response(p, "get", session, id, FALSE, TRUE, error, <<>>)
               ELSE Response(p, "get", session, id, TRUE, FALSE, "",
                             <<CHOOSE r \in hit : TRUE>>)
          /\ log' = Performed(<<
                Event("auth", session # NoSession, "", <<>>, 0),
                Event("db.user.findFirst", user # NoUser, "", <<>>, 0),
                Event("db.transaction.findFirst", hit # {}, "",
                      IF hit # {} THEN <<CHOOSE r \in hit : TRUE>> ELSE <<>>,
                      0) >>)
    /\ UNCHANGED <<account, transaction, nextId, call, applied, deltaSum, failed>>

\* ------------------------------------------------------ updateTransaction

\* The submitted signed amount alone, as it would be were the stored amount
\* not taken off.
NetBalanceChangeKeepsOld(data, originalTransaction) ==
    BalanceChange(data.type, data.amount)

\* netBalanceChange: the submitted signed amount less the stored one.
NetBalanceChange(data, originalTransaction) ==
    BalanceChange(data.type, data.amount)
    - BalanceChange(originalTransaction.type, originalTransaction.amount)

\* The guards and reads of updateTransaction, up to netBalanceChange.
UpdateRead(p, session, id, data) ==
    /\ call[p].pc = "idle"
    /\ budget > 0
    /\ budget' = budget - 1
    /\ LET user == FindUser(session)
           hit == TransactionFindFirst(DbOf(account, transaction), id, user)
           error ==
             CASE session = NoSession -> "Unauthorized"
               [] user = NoUser -> "User not found"
               [] hit = {} -> "Transaction not found"
               [] OTHER -> ""
           \* include: { account: true }: the row comes with its account.
           events ==
             Performed(<<
               Event("auth", session # NoSession, "", <<>>, 0),
               Event("db.user.findFirst", user # NoUser, "", <<>>, 0),
               IF hit = {}
               THEN Event("db.transaction.findFirst", FALSE, "", <<>>, 0)
               ELSE LET r == CHOOSE r \in hit : TRUE IN
                    Event("db.transaction.findFirst", TRUE, r.accountId, <<r>>,
                          account[r.accountId].balance) >>)
       IN IF error # ""
          THEN /\ response' = Response(p, "update", session, id, FALSE, FALSE,
                                       error, <<>>)
               /\ failed' = TRUE
               /\ log' = events
               /\ UNCHANGED call
          ELSE LET originalTransaction == CHOOSE r \in hit : TRUE IN
               /\ call' = [call EXCEPT ![p] =
                    [pc |-> "write", op |-> "update", session |-> session,
                     user |-> user, id |-> id, data |-> data,
                     newBalance |-> 0,
                     netBalanceChange |->
                        NetBalanceChange(data, originalTransaction),
                     log |-> events]]
               /\ UNCHANGED <<response, failed, log>>
    /\ UNCHANGED <<account, transaction, nextId, applied, deltaSum>>

\* The balance that came with the original transaction (include: account).
ReadBalance(c) ==
    LET i == CHOOSE i \in DOMAIN c.log : c.log[i].ev = "db.transaction.findFirst"
    IN c.log[i].balance

\* The statements with the balance set to the one read plus netBalanceChange,
\* as they would be were the balance written as createTransaction writes it.
UpdateStatementsAbsolute(c) ==
    << [kind |-> "transaction.update", id |-> c.id,
        userId |-> c.user, data |-> c.data],
       [kind |-> "account.update", id |-> c.data.accountId,
        increment |-> FALSE, value |-> ReadBalance(c) + c.netBalanceChange] >>

\* The statements with the increment applied to the account the stored
\* transaction is on, as they would be were the account taken from the
\* original transaction and not from the submitted data.
UpdateStatementsOnStoredAccount(c) ==
    << [kind |-> "transaction.update", id |-> c.id,
        userId |-> c.user, data |-> c.data],
       [kind |-> "account.update", id |-> c.log[Len(c.log)].arg,
        increment |-> TRUE, value |-> c.netBalanceChange] >>

\* The two statements of updateTransaction's $transaction, for the call with
\* locals c.
UpdateStatements(c) ==
    << [kind |-> "transaction.update", id |-> c.id,
        userId |-> c.user, data |-> c.data],
       [kind |-> "account.update", id |-> c.data.accountId,
        increment |-> TRUE, value |-> c.netBalanceChange] >>

\* The atomic write of updateTransaction, the two revalidatePath calls and
\* the return.
UpdateWrite(p, failAt, revalidateFailAt) ==
    /\ call[p].pc = "write" /\ call[p].op = "update"
    /\ LET c == call[p]
           run == DbTransaction(DbOf(account, transaction),
                                UpdateStatements(c), failAt)
           good == run.ok /\ revalidateFailAt = 0
       IN /\ account' = run.db.account
          /\ transaction' = run.db.transaction
          /\ applied' = run.applied
          /\ deltaSum' = IF run.ok
                         THEN [deltaSum EXCEPT ![c.data.accountId] =
                                 @ + c.netBalanceChange]
                         ELSE deltaSum
          /\ response' = Response(p, "update", c.session, c.id, good, FALSE,
                            IF ~run.ok THEN "Transaction failed"
                            ELSE IF ~good THEN "Revalidation failed"
                            ELSE "",
                            IF good
                            THEN <<CHOOSE r \in run.db.transaction : r.id = c.id>>
                            ELSE <<>>)
          /\ failed' = (failed \/ ~good)
          /\ log' = c.log \o
                IF run.ok
                THEN << Event("db.transaction.update", TRUE, c.data.accountId,
                              <<>>, 0),
                        Event("db.account.update", TRUE, c.data.accountId,
                              <<>>, c.netBalanceChange) >>
                     \o Revalidations(c.data.accountId, revalidateFailAt)
                ELSE << Event("db.$transaction", FALSE, "", <<>>, 0) >>
    /\ call' = [call EXCEPT ![p] = IdleCall]
    /\ UNCHANGED <<nextId, budget>>

\* ---------------------------------------------------- getUserTransactions

\* The orders findMany may return the rows in under orderBy date desc.
DateDescending(rows) ==
    {s \in [1..Cardinality(rows) -> rows] :
        /\ \A i, j \in DOMAIN s : i # j => s[i] # s[j]
        /\ \A i, j \in DOMAIN s : i < j => s[i].date >= s[j].date}

\* where: { userId: user.id, ...query }: a key of query replaces the one
\* before it.
QueryWhere(userId, query) ==
    [userId |-> Column(query.userId, userId), accountId |-> query.accountId]

Matches(r, where) ==
    /\ r.userId = where.userId
    /\ where.accountId = Undefined \/ r.accountId = where.accountId

Queries == [userId : {Undefined} \cup UserIds,
            accountId : {Undefined} \cup AccountIds]

GetUserTransactions(p, session, query) ==
    /\ call[p].pc = "idle"
    /\ budget > 0
    /\ budget' = budget - 1
    /\ LET user == FindUser(session)
           error ==
             CASE session = NoSession -> "Unauthorized"
               [] user = NoUser -> "User not found"
               [] OTHER -> ""
           rows == {r \in transaction : Matches(r, QueryWhere(user, query))}
       IN /\ IF error # ""
             THEN response' = Response(p, "getMany", session, 0, FALSE, FALSE,
                                       error, <<>>)
             ELSE \E s \in DateDescending(rows) :
                     response' = Response(p, "getMany", session, 0, TRUE, FALSE,
                                          "", s)
          /\ log' = Performed(<<
                Event("auth", session # NoSession, "", <<>>, 0),
                Event("db.user.findFirst", user # NoUser, "", <<>>, 0),
                Event("db.transaction.findMany", user # NoUser, "", <<>>, 0) >>)
    /\ UNCHANGED <<account, transaction, nextId, call, applied, deltaSum, failed>>

\* ------------------------------------------------------------ scanReceipt

\* The text the model answers with, in pieces: a fence that opens or closes
\* a code block (three backquotes, after the opening ones possibly "json"
\* and a line break), a JSON object, or anything else.
ReceiptTexts ==
    { <<"object">>, <<"fence json", "object", "fence">>,
      <<"fence", "object", "fence">>,
      <<"prose">>, <<"fence json", "object cut short", "fence">> }

\* What generateContent gives: it fails, or it answers with a text.
ModelResults ==
    {[ok |-> FALSE, text |-> <<>>]} \cup {[ok |-> TRUE, text |-> t] : t \in ReceiptTexts}

\* The text with every fence replaced by nothing.
StripFences(text) == SelectSeq(text, LAMBDA piece : piece \notin {"fence json", "fence"})

\* JSON.parse succeeds on one whole JSON value.
JsonParses(cleanedText) == cleanedText = <<"object">>

\* The inner try: the parse and the return, or the throw of its catch.
ParseReceipt(text) ==
    IF JsonParses(StripFences(text))
    THEN [thrown |-> FALSE, error |-> ""]
    ELSE [thrown |-> TRUE, error |-> "Invalid receipt format"]

\* The outer try around the model call and the inner try: whatever is thrown
\* inside it, its catch throws "Failed to process receipt".
ScanOutcome(generated) ==
    LET inside == IF generated.ok THEN ParseReceipt(generated.text)
                  ELSE [thrown |-> TRUE, error |-> "generateContent failed"]
    IN IF inside.thrown
       THEN [thrown |-> TRUE, error |-> "Failed to process receipt"]
       ELSE inside

ScanReceipt(p, generated) ==
    /\ call[p].pc = "idle"
    /\ budget > 0
    /\ budget' = budget - 1
    /\ LET out == ScanOutcome(generated) IN
       response' = Response(p, "scan", NoSession, 0, ~out.thrown, out.thrown,
                            out.error, <<>>)
    /\ log' = <<Event("model.generateContent", generated.ok, "", <<>>, 0)>>
    /\ UNCHANGED <<account, transaction, nextId, call, applied, deltaSum, failed>>

\* -------------------------------------------------------- seedTransactions

\* The account and the user the seeder is written for.
ACCOUNT_ID == "A1"
USER_ID == "U1"

\* new Date() at the time of the run.
Today == 20240301

PreviousDay(date) ==
    IF DayOf(date) > 1 THEN date - 1
    ELSE IF MonthOf(date) > 1
         THEN YearOf(date) * 10000 + (MonthOf(date) - 1) * 100
              + DaysInMonth(YearOf(date), MonthOf(date) - 1)
         ELSE (YearOf(date) - 1) * 10000 + 1231

\* subDays(date, amount)
RECURSIVE subDays(_, _)
subDays(date, amount) ==
    IF amount = 0 THEN date ELSE subDays(PreviousDay(date), amount - 1)

\* getRandomCategory(type).amount: one amount out of the ranges of the type.
SeedAmount == [INCOME |-> 500, EXPENSE |-> 200]

\* What the generator draws for one day: between 1 and TransactionsPerDayMax
\* rows, each INCOME or EXPENSE; <<incomes, expenses>>.  The order in which
\* a day's rows are drawn shows in nothing that is stored.
DayBatches ==
    {<<i, e>> \in (0..TransactionsPerDayMax) \X (0..TransactionsPerDayMax) :
        i + e \in 1..TransactionsPerDayMax}

\* What the generator draws for a run: a day's draw for each day offset.
SeedBatches == [0..(SeedDays - 1) -> DayBatches]

\* The ids the store gives the rows a seeding generates as the run-th call
\* of a behaviour: new ones.
SeedId(run, i, j) ==
    MaxId + (run * SeedDays + i) * TransactionsPerDayMax + j

\* The `transactions` array the loop builds.
SeedRows(run, batch) ==
    {[id |-> SeedId(run, i, j), userId |-> USER_ID, accountId |-> ACCOUNT_ID,
      type |-> IF j <= batch[i][1] THEN "INCOME" ELSE "EXPENSE",
      amount |-> IF j <= batch[i][1] THEN SeedAmount.INCOME
                 ELSE SeedAmount.EXPENSE,
      date |-> subDays(Today, i),
      isRecurring |-> FALSE, recurringInterval |-> Null,
      nextRecurringDate |-> NullDate, status |-> "COMPLETED"] :
        <<i, j>> \in {<<i, j>> \in (DOMAIN batch) \X (1..TransactionsPerDayMax) :
                        j <= batch[i][1] + batch[i][2]}}

\* balanceChange: the signedAmount of every generated row, summed over the
\* day offsets from i on.
RECURSIVE BalanceChangeFrom(_, _)
BalanceChangeFrom(batch, i) ==
    IF i \notin DOMAIN batch THEN 0
    ELSE batch[i][1] * SeedAmount.INCOME - batch[i][2] * SeedAmount.EXPENSE
         + BalanceChangeFrom(batch, i + 1)

\* The statements with no delete, as they would be were the earlier rows
\* kept.
SeedStatementsKeepRows(rows, balance) ==
    << [kind |-> "transaction.createMany", rows |-> rows],
       [kind |-> "transaction.createMany", rows |-> rows],
       [kind |-> "account.update", id |-> ACCOUNT_ID, increment |-> FALSE,
        value |-> balance] >>

\* The three statements of the seeder's $transaction.
SeedStatements(rows, balance) ==
    << [kind |-> "transaction.deleteMany", accountId |-> ACCOUNT_ID],
       [kind |-> "transaction.createMany", rows |-> rows],
       [kind |-> "account.update", id |-> ACCOUNT_ID, increment |-> FALSE,
        value |-> balance] >>

SeedFailAts == 0..3

\* seedTransactions(), with one request at a time: the account lookup, the
\* generated rows, the atomic write and the return.
seedTransactions(p, batch, failAt) ==
    /\ call[p].pc = "idle"
    /\ budget > 0
    /\ budget' = budget - 1
    /\ LET db == DbOf(account, transaction)
           found == AccountFindFirst(db, ACCOUNT_ID, USER_ID) # {}
           lookup == Event("db.account.findFirst", found, ACCOUNT_ID, <<>>,
                           IF found THEN account[ACCOUNT_ID].balance ELSE 0)
           balanceChange == BalanceChangeFrom(batch, 0)
           balance == account[ACCOUNT_ID].balance + balanceChange
           result == IF found
                     THEN DbTransaction(db,
                            SeedStatements(SeedRows(MaxSeedCalls - budget, batch),
                                           balance),
                            failAt)
                     ELSE [ok |-> FALSE, db |-> db, applied |-> <<>>]
       IN \E run \in {result} :
          /\ account' = run.db.account
          /\ transaction' = run.db.transaction
          /\ applied' = run.applied
          /\ deltaSum' = IF run.ok
                         THEN [deltaSum EXCEPT ![ACCOUNT_ID] = @ + balanceChange]
                         ELSE deltaSum
          /\ response' = Response(p, "seed", NoSession, 0, run.ok, FALSE,
                            IF ~found THEN "Account not found for user"
                            ELSE IF ~run.ok THEN "Transaction failed"
                            ELSE "",
                            <<>>)
          /\ log' = <<lookup>> \o
                IF run.ok
                THEN << Event("db.transaction.deleteMany", TRUE, ACCOUNT_ID,
                              <<>>, 0),
                        Event("db.transaction.createMany", TRUE, ACCOUNT_ID,
                              <<>>, 0),
                        Event("db.account.update", TRUE, ACCOUNT_ID, <<>>,
                              balance) >>
                ELSE IF found
                     THEN << Event("db.$transaction", FALSE, "", <<>>, 0) >>
                     ELSE << >>
    /\ UNCHANGED <<nextId, call, failed>>

\* ------------------------------------------------------- specifications

\* The request contexts: no session, a session without a user row, each
\* user allowed by the rate limiter, and a user it denies for either reason.
Contexts ==
    {<<s, "ALLOW">> : s \in Sessions} \cup {<<"clerk1", d>> : d \in Decisions}

\* Submitted data that varies what the balance reads: type and amount, on
\* the caller's first account.
AmountData ==
    [accountId : {"A1"}, type : Types, amount : Amounts,
     date : {20240131}, isRecurring : {FALSE},
     recurringInterval : {Undefined}, userId : {Undefined}]

\* Submitted data that varies what the account checks read: the account id
\* (own, another user's, unknown).
AccountData ==
    [accountId : InputAccountIds, type : {"EXPENSE"}, amount : {100},
     date : {20240131}, isRecurring : {FALSE},
     recurringInterval : {Undefined}, userId : {Undefined}]

\* Submitted data carrying a userId key.
UserKeyData ==
    [accountId : {"A1"}, type : {"EXPENSE"}, amount : {100},
     date : {20240131}, isRecurring : {FALSE},
     recurringInterval : {Undefined}, userId : {"U2"}]

Data == AmountData \cup AccountData \cup UserKeyData

\* Submitted data that varies what the recurrence and the ordering read: the
\* date, the recurring flag and the interval (absent, null or given).
RecurringData ==
    [accountId : {"A1"}, type : {"EXPENSE"}, amount : {100},
     date : Dates, isRecurring : BOOLEAN,
     recurringInterval : {Undefined, Null, "MONTHLY"}, userId : {Undefined}]

\* Submitted data of requests racing on one account: an income and an
\* expense of one amount.
RacingData ==
    [accountId : {"A1"}, type : Types, amount : {100},
     date : {20240131}, isRecurring : {FALSE},
     recurringInterval : {Undefined}, userId : {Undefined}]

FailAts == 0..2
RevalidateFailAts == 0..2
TransactionIds == 1..MaxId

Step(p, D) ==
    \/ \E c \in Contexts, data \in D : CreateRead(p, c[1], c[2], data)
    \/ \E f \in FailAts, rf \in RevalidateFailAts : CreateWrite(p, f, rf)
    \/ \E s \in Sessions, id \in TransactionIds : GetTransaction(p, s, id)
    \/ \E s \in Sessions, id \in TransactionIds, data \in D :
          UpdateRead(p, s, id, data)
    \/ \E f \in FailAts, rf \in RevalidateFailAts : UpdateWrite(p, f, rf)
    \/ \E s \in Sessions, q \in Queries : GetUserTransactions(p, s, q)
    \/ \E g \in ModelResults : ScanReceipt(p, g)

\* One request at a time.
Next == Step("p1", Data)

Spec == Init /\ [][Next]_vars

\* One request at a time, submitting recurrence data.
NextRecurring == Step("p1", RecurringData)

SpecRecurring == Init /\ [][NextRecurring]_vars

\* Requests interleaved at their awaits.
InitConcurrent ==
    /\ account = [a \in AccountIds |-> [userId |-> AccountOwner[a], balance |-> 0]]
    /\ transaction = {}
    /\ nextId = 1
    /\ budget = MaxConcurrentCalls
    /\ call = [p \in Procs |-> IdleCall]
    /\ response = NoResponse
    /\ applied = <<>>
    /\ deltaSum = [a \in AccountIds |-> 0]
    /\ failed = FALSE
    /\ log = <<>>

NextConcurrent == \E p \in Procs : Step(p, RacingData)

SpecConcurrent == InitConcurrent /\ [][NextConcurrent]_vars

\* The start dates the recurrence is computed from: a month's last day with
\* a shorter month after it, a mid-month day, a leap day, a year's last day
\* and a day the following month has too.
StartDates == {20240131, 20240115, 20240229, 20231231, 20240330}

\* The intervals a caller may submit: the four the switch knows, and one it
\* does not.
SubmittedIntervals == Intervals \cup {"FORTNIGHTLY"}

\* Submitted data of recurring transactions: every start date with every
\* interval.
DateData ==
    [accountId : {"A1"}, type : {"EXPENSE"}, amount : {100},
     date : StartDates, isRecurring : {TRUE},
     recurringInterval : SubmittedIntervals, userId : {Undefined}]

\* One user's recurring creates and updates, one at a time, none failing.
InitDates ==
    /\ account = [a \in AccountIds |-> [userId |-> AccountOwner[a], balance |-> 0]]
    /\ transaction = {}
    /\ nextId = 1
    /\ budget = MaxDateCalls
    /\ call = [p \in Procs |-> IdleCall]
    /\ response = NoResponse
    /\ applied = <<>>
    /\ deltaSum = [a \in AccountIds |-> 0]
    /\ failed = FALSE
    /\ log = <<>>

NextDates ==
    \/ \E data \in DateData : CreateRead("p1", "clerk1", "ALLOW", data)
    \/ CreateWrite("p1", 0, 0)
    \/ \E id \in TransactionIds, data \in DateData :
          UpdateRead("p1", "clerk1", id, data)
    \/ UpdateWrite("p1", 0, 0)

SpecDates == InitDates /\ [][NextDates]_vars

\* Submitted data of the creates made around the seeding runs: on the seeded
\* account and on another of the same user.
SeedSideData == {d \in AccountData : d.accountId \in {"A1", "A2"}}

\* Seeding runs and creates, one at a time.
InitSeed ==
    /\ account = [a \in AccountIds |-> [userId |-> AccountOwner[a], balance |-> 0]]
    /\ transaction = {}
    /\ nextId = 1
    /\ budget = MaxSeedCalls
    /\ call = [p \in Procs |-> IdleCall]
    /\ response = NoResponse
    /\ applied = <<>>
    /\ deltaSum = [a \in AccountIds |-> 0]
    /\ failed = FALSE
    /\ log = <<>>

NextSeed ==
    \/ \E batch \in SeedBatches, f \in SeedFailAts :
          seedTransactions("p1", batch, f)
    \/ \E data \in SeedSideData : CreateRead("p1", "clerk1", "ALLOW", data)
    \/ CreateWrite("p1", 0, 0)

SpecSeed == InitSeed /\ [][NextSeed]_vars

\* ------------------------------------------------------------ properties

\* The signed amount a stored row stands for in its account's balance.
Signed(r) == IF r.type = "INCOME" THEN r.amount ELSE 0 - r.amount

RECURSIVE SumSigned(_)
SumSigned(rows) ==
    IF rows = {} THEN 0
    ELSE LET r == CHOOSE x \in rows : TRUE IN Signed(r) + SumSigned(rows \ {r})

CompletedOn(a) == {r \in transaction : r.accountId = a /\ r.status = "COMPLETED"}

LedgerHolds == \A a \in AccountIds : account[a].balance = SumSigned(CompletedOn(a))

AllIdle == \A p \in Procs : call[p].pc = "idle"

\* The request p finishes its atomic write in this step, with success or not.
WriteStep(p, op) ==
    call[p].pc = "write" /\ call[p].op = op /\ call'[p].pc = "idle"

\* C1: with one request at a time, after any sequence of successful
\* createTransaction and updateTransaction calls (updates to another account
\* id included) every account's balance is the sum of the signed amounts of
\* the COMPLETED transactions on it.
C1_LedgerInvariant == (~failed) => LedgerHolds

\* C2: a successful createTransaction, run without interference, leaves the
\* account's balance at its balance before the call minus the amount for an
\* EXPENSE and plus the amount otherwise, and adds exactly one row, which
\* carries the submitted fields and the caller's internal user id.
C2_CreatePostcondition ==
    [][\A p \in Procs :
         (WriteStep(p, "create") /\ response'.ok) =>
            LET d == call[p].data
                new == transaction' \ transaction
            IN /\ account'[d.accountId].balance =
                    account[d.accountId].balance
                    + (IF d.type = "EXPENSE" THEN 0 - d.amount ELSE d.amount)
               /\ transaction \subseteq transaction'
               /\ Cardinality(new) = 1
               /\ \A r \in new :
                    /\ r.userId = FindUser(call[p].session)
                    /\ r.accountId = d.accountId /\ r.type = d.type
                    /\ r.amount = d.amount /\ r.date = d.date
                    /\ r.isRecurring = d.isRecurring
                    /\ response'.data = <<r>>]_vars

\* C2 witness: a create of a 150 EXPENSE by user U1 on A1 has returned
\* success with the row, and the balance stands at -150.
C2_Witness ==
    /\ response.op = "create" /\ response.ok
    /\ Len(response.data) = 1
    /\ response.data[1].type = "EXPENSE" /\ response.data[1].amount = 150
    /\ response.data[1].userId = "U1" /\ response.data[1].accountId = "A1"
    /\ response.data[1] \in transaction
    /\ account["A1"].balance = 0 - 150

\* C3: the row write and the balance write of createTransaction and of
\* updateTransaction persist together or not at all, also when a statement
\* fails or the write is interrupted: every step either leaves both tables
\* as they were, or is a write whose two statements both persist.
C3_AtomicDualWrite ==
    [][/\ \A p \in Procs :
            (WriteStep(p, "create") \/ WriteStep(p, "update")) =>
               \/ applied' = <<>> /\ account' = account /\ transaction' = transaction
               \/ Len(applied') = 2
       /\ (account' # account \/ transaction' # transaction) =>
            /\ Len(applied') = 2
            /\ applied'[1] \in {"transaction.create", "transaction.update"}
            /\ applied'[2] = "account.update"]_vars

\* C3 witness: a write was interrupted at its second statement, its caller
\* was told of the failure, and neither the row nor the balance is there.
C3_Witness ==
    /\ response.op = "create" /\ ~response.ok
    /\ response.error = "Transaction failed"
    /\ applied = <<>>
    /\ transaction = {}
    /\ \A a \in AccountIds : account[a].balance = 0

\* C4: a successful updateTransaction on a transaction that stays on its
\* account leaves the balance at its balance before the call plus the signed
\* amount submitted minus the signed amount stored.
C4_UpdateNetDelta ==
    [][\A p \in Procs :
         (WriteStep(p, "update") /\ response'.ok) =>
            \A old \in {r \in transaction : r.id = call[p].id} :
               LET d == call[p].data IN
               old.accountId = d.accountId =>
                  account'[d.accountId].balance =
                     account[d.accountId].balance
                     + (IF d.type = "EXPENSE" THEN 0 - d.amount ELSE d.amount)
                     - (IF old.type = "EXPENSE" THEN 0 - old.amount
                        ELSE old.amount)]_vars

\* C4 witness: after a create and an update of that row on A1 to a 150
\* EXPENSE, the update has returned success and the balance stands at -150.
C4_Witness ==
    /\ response.op = "update" /\ response.ok
    /\ Len(response.data) = 1
    /\ response.data[1].accountId = "A1"
    /\ response.data[1].type = "EXPENSE" /\ response.data[1].amount = 150
    /\ transaction = {response.data[1]}
    /\ account["A1"].balance = 0 - 150

\* C5: for any interleaving of createTransaction and updateTransaction
\* calls, once all have completed successfully every account's balance is
\* the initial balance (0) plus the sum of the calls' deltas, and is the sum
\* of the signed amounts of its transactions.
C5_NoLostUpdates ==
    (AllIdle /\ ~failed) =>
        \A a \in AccountIds :
            /\ account[a].balance = deltaSum[a]
            /\ account[a].balance = SumSigned(CompletedOn(a))

\* The session resolves to a user, and the id names a row of another user.
Foreign(session, id) ==
    /\ FindUser(session) # NoUser
    /\ \E r \in transaction : r.id = id /\ r.userId # FindUser(session)

\* The session resolves to a user, and no row has the id.
Absent(session, id) ==
    /\ FindUser(session) # NoUser
    /\ \A r \in transaction : r.id # id

TablesUnchanged == account' = account /\ transaction' = transaction

\* The call that starts in this step (every start takes one off budget):
\* it has either ended at once, and response' tells of it, or it is pending
\* in the one entry of call that changed.
Request ==
    IF call' = call
    THEN [op |-> response'.op, session |-> response'.session, id |-> response'.id]
    ELSE LET p == CHOOSE q \in Procs : call'[q] # call[q] IN
         [op |-> call'[p].op, session |-> call'[p].session, id |-> call'[p].id]

\* C6: getTransaction(id) and updateTransaction(id, data) on a transaction
\* of another user end exactly as on an id that does not exist: 'Transaction
\* not found' (thrown by getTransaction, returned by updateTransaction),
\* with none of the row's data, no row and no balance changed, and no write
\* to follow.
C6_ForeignIsNotFound ==
    [][(/\ budget' < budget
        /\ Request.op \in {"get", "update"}
        /\ Foreign(Request.session, Request.id)
           \/ Absent(Request.session, Request.id)) =>
           /\ call' = call
           /\ TablesUnchanged
           /\ response' = Response("p1", Request.op, Request.session,
                                   Request.id, FALSE, Request.op = "get",
                                   "Transaction not found", <<>>)]_vars

\* C6 witness: user U2 asked for (or tried to update) a stored row of user
\* U1 and was told 'Transaction not found'.
C6_Witness ==
    /\ response.op \in {"get", "update"}
    /\ response.error = "Transaction not found"
    /\ response.data = <<>>
    /\ Foreign(response.session, response.id)
    /\ AllIdle

\* C7: every write of createTransaction and of updateTransaction changes
\* only accounts owned by the resolved user (never the balance of another
\* user's account named in the input), and every row it writes has the
\* resolved user's id as its userId.
C7_WritesOwnedOnly ==
    [][\A p \in Procs :
         (WriteStep(p, "create") \/ WriteStep(p, "update")) =>
            /\ \A a \in AccountIds :
                  account'[a] # account[a] => account[a].userId = call[p].user
            /\ \A r \in transaction' \ transaction :
                  r.userId = call[p].user]_vars

\* C8: whatever keys the query carries, every row getUserTransactions
\* returns belongs to the resolved user, and the rows are in descending
\* order of date.
C8_QueryOwnershipScoped ==
    (response.op = "getMany" /\ response.ok) =>
        /\ \A i \in DOMAIN response.data :
              response.data[i].userId = FindUser(response.session)
        /\ \A i, j \in DOMAIN response.data :
              i < j => response.data[i].date >= response.data[j].date

\* C9: every stored transaction has a nextRecurringDate if and only if its
\* isRecurring is true and its recurringInterval is set.
C9_RecurringInvariant ==
    \A r \in transaction :
        (r.nextRecurringDate # NullDate) <=>
            (r.isRecurring /\ r.recurringInterval # Null)

\* A createTransaction or updateTransaction call ends in failure in this step.
MutationFails ==
    /\ response'.op \in {"create", "update"}
    /\ ~response'.ok
    /\ \/ \E p \in Procs : WriteStep(p, response'.op)
       \/ budget' < budget /\ call' = call

\* C10: whenever createTransaction or updateTransaction ends in failure, at
\* a guard, in the write or in a later step, the transaction rows and every
\* account balance are what they were before.
C10_FailureLeavesState == [][MutationFails => TablesUnchanged]_vars

\* What createTransaction and updateTransaction give their caller: never a
\* throw, and on failure a message.
MutationsReturn ==
    response.op \in {"create", "update"} =>
        /\ ~response.raised
        /\ ~response.ok => response.error # ""

\* C11 (as amended): createTransaction and updateTransaction never throw and
\* on any failure return success = false with a message; getTransaction
\* throws its failure to the caller; getUserTransactions does not: it
\* returns success = false with a message, as the mutations do.
C11_ErrorSurface ==
    /\ MutationsReturn
    /\ response.op = "get" /\ ~response.ok => response.raised
    /\ response.op = "getMany" /\ ~response.ok =>
          ~response.raised /\ response.error # ""

\* C11 (as stated): createTransaction and updateTransaction never throw and
\* on any failure return success = false with a message, while
\* getTransaction and getUserTransactions throw their failure to the caller
\* and never return a failure result.
C11_QueriesReraise ==
    /\ MutationsReturn
    /\ response.op \in {"get", "getMany"} /\ ~response.ok => response.raised

\* Each of the four handlers has failed: getTransaction by throwing, the
\* other three by returning; here getUserTransactions was the last.
C11_Witness ==
    /\ response.op = "getMany" /\ ~response.ok /\ ~response.raised
    /\ response.error = "Unauthorized"
    /\ failed

\* C12: scanReceipt keeps its two failures apart.  When the model call
\* succeeds and its text, fences stripped, does not parse as JSON, the caller
\* gets "Invalid receipt format"; when the model call fails, the caller gets
\* "Failed to process receipt"; no outcome is both.
C12_FailureKindsDistinct ==
    [][\A p \in Procs, g \in ModelResults :
         ScanReceipt(p, g) =>
            /\ g.ok /\ ~JsonParses(StripFences(g.text)) =>
                  response'.raised /\ response'.error = "Invalid receipt format"
            /\ ~g.ok =>
                  response'.raised /\ response'.error = "Failed to process receipt"]_vars

ValidDate(date) ==
    /\ MonthOf(date) \in 1..12
    /\ DayOf(date) \in 1..DaysInMonth(YearOf(date), MonthOf(date))

\* The calendar month after the given date's, as <<year, month>>.
FollowingMonth(date) ==
    IF MonthOf(date) = 12 THEN <<YearOf(date) + 1, 1>>
    ELSE <<YearOf(date), MonthOf(date) + 1>>

\* The rows whose nextRecurringDate was computed from their own date and
\* interval: under SpecDates every write submits both.
Computed(interval) ==
    {r \in transaction : r.isRecurring /\ r.recurringInterval = interval
                         /\ r.nextRecurringDate # NullDate}

\* C13: for every start date, the MONTHLY next date is a valid date in the
\* calendar month right after the start's, on the same day of the month when
\* that month has such a day; from 2024-01-31 it is a date in February 2024.
C13_MonthlyFollowingMonth ==
    \A r \in Computed("MONTHLY") :
        LET next == r.nextRecurringDate
            fm == FollowingMonth(r.date)
        IN /\ ValidDate(next)
           /\ YearOf(next) = fm[1] /\ MonthOf(next) = fm[2]
           /\ DayOf(r.date) <= DaysInMonth(fm[1], fm[2]) =>
                 DayOf(next) = DayOf(r.date)
           /\ r.date = 20240131 => next \in 20240201..20240229

\* C19: a successful create or update that submits isRecurring = true with
\* an interval other than DAILY, WEEKLY, MONTHLY and YEARLY stores (and
\* returns) nextRecurringDate equal to the submitted date, with no error;
\* with one of the four it stores a date strictly later than the submitted
\* one.
C19_UnknownIntervalKeepsDate ==
    [][\A p \in Procs :
         ((WriteStep(p, "create") \/ WriteStep(p, "update")) /\ response'.ok) =>
            LET d == call[p].data
                r == response'.data[1]
            IN /\ r \in transaction'
               /\ (d.isRecurring
                   /\ d.recurringInterval \notin Intervals \cup {Null, Undefined}) =>
                     r.nextRecurringDate = d.date
               /\ (d.isRecurring /\ d.recurringInterval \in Intervals) =>
                     r.nextRecurringDate > d.date]_vars

\* C19 witness: a FORTNIGHTLY recurring transaction dated 2024-01-31 has
\* been created, and an update of it to YEARLY from the leap day has
\* returned the row with nextRecurringDate 2025-03-01.
C19_Witness ==
    /\ response.op = "update" /\ response.ok
    /\ response.data[1].recurringInterval = "YEARLY"
    /\ response.data[1].date = 20240229
    /\ response.data[1].nextRecurringDate = 20250301
    /\ \E i \in DOMAIN log :
          /\ log[i].ev = "db.transaction.findFirst" /\ log[i].ok
          /\ log[i].row[1].recurringInterval = "FORTNIGHTLY"
          /\ log[i].row[1].nextRecurringDate = 20240131
          /\ log[i].row[1].date = 20240131

\* A seeding run starts, and ends with success, in this step.
SeedStep ==
    /\ budget' < budget /\ call' = call
    /\ response'.op = "seed" /\ response'.ok

\* The days a seeding run generates rows for.
SeedDates == {subDays(Today, i) : i \in 0..(SeedDays - 1)}

\* C14: after a successful seeding run the seeded account's transactions
\* are that run's rows and no others: none of the rows it had before is
\* left, every generated day has between 1 and TransactionsPerDayMax rows
\* (between SeedDays and SeedDays * TransactionsPerDayMax in all, 91 to 273
\* in the seeder), and the balance is the one stored right before the run
\* plus the signed sum of the run's rows.  So it is after a second run too.
C14_SeederReplacement ==
    [][SeedStep =>
         LET rows == {r \in transaction' : r.accountId = ACCOUNT_ID}
             earlier == {r \in transaction : r.accountId = ACCOUNT_ID}
         IN /\ {r.id : r \in rows} \cap {r.id : r \in earlier} = {}
            /\ \A r \in rows :
                  /\ r.date \in SeedDates /\ r.status = "COMPLETED"
                  /\ r.userId = USER_ID
            /\ \A d \in SeedDates :
                  Cardinality({r \in rows : r.date = d})
                     \in 1..TransactionsPerDayMax
            /\ Cardinality(rows) \in SeedDays..(SeedDays * TransactionsPerDayMax)
            /\ account'[ACCOUNT_ID].balance =
                  account[ACCOUNT_ID].balance + SumSigned(rows)]_vars

\* C14 witness: two seeding runs and nothing else have succeeded; the
\* account holds one full batch, and its balance, the sum of both runs, is
\* not the sum of the rows it holds.
C14_Witness ==
    /\ response.op = "seed" /\ response.ok
    /\ budget = MaxSeedCalls - 2 /\ nextId = 1
    /\ Cardinality(CompletedOn(ACCOUNT_ID)) = SeedDays * TransactionsPerDayMax
    /\ account[ACCOUNT_ID].balance = deltaSum[ACCOUNT_ID]
    /\ account[ACCOUNT_ID].balance # SumSigned(CompletedOn(ACCOUNT_ID))

\* C16: after a successful seeding run on an account whose balance was the
\* sum of the signed amounts of its transactions before the run, the
\* balance is the sum of the signed amounts of the COMPLETED transactions on
\* it after the run.
C16_LedgerSurvivesSeeding ==
    [][(/\ SeedStep
        /\ account[ACCOUNT_ID].balance = SumSigned(CompletedOn(ACCOUNT_ID)))
       => account'[ACCOUNT_ID].balance =
             SumSigned({r \in transaction' : r.accountId = ACCOUNT_ID
                                             /\ r.status = "COMPLETED"})]_vars

\* C15: the write of a successful updateTransaction adds netBalanceChange to
\* the balance the account has when the write runs, whatever the balance
\* was when the update read its transaction: a change another request
\* committed in between stays in the balance.
C15_IncrementAtWriteTime ==
    [][\A p \in Procs :
         (WriteStep(p, "update") /\ response'.ok) =>
            LET c == call[p]
                a == c.data.accountId
            IN account'[a].balance = account[a].balance + c.netBalanceChange]_vars

\* C15 witness: an update has returned success on the account it read its
\* transaction on, and the balance is not the one it read plus its
\* netBalanceChange: another request's change, committed in between, is in
\* it too, and the balance is the sum of all the changes committed.
C15_Witness ==
    /\ response.op = "update" /\ response.ok
    /\ \E i, j \in DOMAIN log :
          /\ log[i].ev = "db.transaction.findFirst"
          /\ log[j].ev = "db.account.update"
          /\ log[i].arg = log[j].arg
          /\ account[log[j].arg].balance # log[i].balance + log[j].balance
          /\ account[log[j].arg].balance = deltaSum[log[j].arg]

\* The calls that read or write the store, and those that write it.
DbEvents ==
    {"db.user.findFirst", "db.account.findFirst", "db.transaction.findFirst",
     "db.transaction.findMany", "db.transaction.create",
     "db.transaction.update", "db.account.update", "db.$transaction"}

WriteEvents ==
    {"db.transaction.create", "db.transaction.update", "db.account.update",
     "db.$transaction"}

\* In the calls L of a handler of operation op: the store is touched only
\* after auth() has given a user id, and written only after the ownership
\* lookup of what the input names (the account of a create, the transaction
\* of an update) has found it.
GuardsFirst(L, op) ==
    /\ \A i \in DOMAIN L :
          L[i].ev \in DbEvents =>
             \E j \in 1..(i - 1) : L[j].ev = "auth" /\ L[j].ok
    /\ \A i \in DOMAIN L :
          L[i].ev \in WriteEvents =>
             \E j \in 1..(i - 1) :
                /\ L[j].ok
                /\ \/ op = "create" /\ L[j].ev = "db.account.findFirst"
                      /\ (L[i].arg # "" => L[j].arg = L[i].arg)
                   \/ op = "update" /\ L[j].ev = "db.transaction.findFirst"

GuardedOps == {"create", "update", "get", "getMany"}

Invalidated(L) ==
    {L[i].arg : i \in {i \in DOMAIN L : L[i].ev = "revalidatePath" /\ L[i].ok}}

\* A createTransaction or updateTransaction call ends before its write, in
\* the step it starts in.
GuardFailureStep ==
    /\ budget' < budget /\ call' = call
    /\ response'.op \in {"create", "update"}

\* C18: for every createTransaction or updateTransaction call, the dashboard
\* view and the view of the account named in the input are both invalidated
\* exactly when the call's atomic write committed, and only after the
\* commit; a call that fails invalidates nothing.
C18_InvalidationFollowsCommit ==
    [][/\ \A p \in Procs :
            (WriteStep(p, "create") \/ WriteStep(p, "update")) =>
               LET views == {"/dashboard", AccountPath(call[p].data.accountId)}
               IN /\ (views \subseteq Invalidated(log')) <=> (applied' # <<>>)
                  /\ \A i \in DOMAIN log' :
                        log'[i].ev = "revalidatePath" =>
                           \E j \in 1..(i - 1) :
                              log'[j].ev = "db.account.update" /\ log'[j].ok
                  /\ ~response'.ok => Invalidated(log') = {}
       /\ GuardFailureStep => Invalidated(log') = {}]_vars

\* The stored row an update found, from the calls L it made.
OriginalIn(L) ==
    LET i == CHOOSE i \in DOMAIN L : L[i].ev = "db.transaction.findFirst"
    IN L[i].row[1]

\* The update that the calls in `log` belong to has returned success and
\* left its transaction on its account.
UpdatedInPlace ==
    /\ response.op = "update" /\ response.ok
    /\ response.data[1].accountId = OriginalIn(log).accountId

\* C20: with one request at a time, an update that leaves a transaction on
\* its account and submits the stored type and amount leaves the balance as
\* it was; and an update from (type1, amount1) to (type2, amount2) followed,
\* with no call in between, by an update back to (type1, amount1) leaves the
\* balance as it was before the first of the two.
C20_UpdateRoundTrip ==
    [][\A p \in Procs :
         (/\ WriteStep(p, "update") /\ response'.ok
          /\ call[p].data.accountId = OriginalIn(call[p].log).accountId) =>
            LET c == call[p]
                a == c.data.accountId
                stored == OriginalIn(c.log)
            IN /\ (c.data.type = stored.type /\ c.data.amount = stored.amount) =>
                     account'[a].balance = account[a].balance
               /\ (/\ UpdatedInPlace /\ response.id = c.id
                   /\ c.data.type = OriginalIn(log).type
                   /\ c.data.amount = OriginalIn(log).amount) =>
                     account'[a].balance = ReadBalance([log |-> log])]_vars

\* C20 witness: a 100 INCOME on A1 has been updated in place to a 150
\* EXPENSE, the balance went from 100 to -150, and the update back to a 100
\* INCOME, the next call, is at its write.
C20_Witness ==
    /\ UpdatedInPlace
    /\ OriginalIn(log).type = "INCOME" /\ OriginalIn(log).amount = 100
    /\ response.data[1].type = "EXPENSE" /\ response.data[1].amount = 150
    /\ ReadBalance([log |-> log]) = 100 /\ account["A1"].balance = -150
    /\ call["p1"].pc = "write" /\ call["p1"].op = "update"
    /\ call["p1"].id = response.id
    /\ call["p1"].data.accountId = "A1"
    /\ call["p1"].data.type = "INCOME" /\ call["p1"].data.amount = 100

\* The accounts other than a keep their rows, and the rows other than those
\* in `changed` stay as they are.
OthersUnchanged(a, changed) ==
    /\ \A b \in AccountIds \ {a} : account'[b] = account[b]
    /\ account'[a].userId = account[a].userId
    /\ \A r \in transaction \ changed : r \in transaction'

\* C21: a successful createTransaction adds exactly one transaction row and
\* changes the balance of the account named in its input only; a successful
\* updateTransaction(id, data) changes the row with that id only, never the
\* number of rows, and the balance of the account named in data.accountId
\* only; every other step (getTransaction, getUserTransactions and the reads
\* of the mutations among them) changes no row and no balance.
C21_Frame ==
    [][/\ \A p \in Procs :
            (WriteStep(p, "create") /\ response'.ok) =>
               /\ OthersUnchanged(call[p].data.accountId, {})
               /\ Cardinality(transaction' \ transaction) = 1
               /\ Cardinality(transaction') = Cardinality(transaction) + 1
       /\ \A p \in Procs :
            (WriteStep(p, "update") /\ response'.ok) =>
               /\ OthersUnchanged(call[p].data.accountId,
                                  {r \in transaction : r.id = call[p].id})
               /\ Cardinality(transaction') = Cardinality(transaction)
               /\ {r.id : r \in transaction'} = {r.id : r \in transaction}
       /\ (\A p \in Procs : ~WriteStep(p, "create") /\ ~WriteStep(p, "update"))
             => TablesUnchanged]_vars

\* C21 witness: with a transaction on A1 and one on A2, an update of one of
\* them has returned success; the other row and both balances are there.
C21_Witness ==
    /\ response.op = "update" /\ response.ok
    /\ Cardinality(transaction) = 2
    /\ \E r \in transaction : r.id # response.id /\ r.accountId = "A2"
    /\ response.data[1].accountId = "A1"
    /\ account["A1"].balance # 0 /\ account["A2"].balance # 0

====
